---- MODULE Spec2Model ----
(***************************************************************************)
(* CFPiHole: one-shot reconciliation of Cloudflare Gateway domain lists    *)
(* and the firewall policy that references them.                           *)
(*                                                                         *)
(* Two implementations of the replace cycle live in the repository:        *)
(*   variant "main"   : App.run of main.py on top of cloudflare.py         *)
(*   variant "config" : delete_lists_policy / create_lists_policy of       *)
(*                      cloudflare_config.py on top of cloudflare_api.py   *)
(* The remote store is a pair of sequences (the order in which the API     *)
(* returns the resources): lists and policies. It starts within the        *)
(* platform's limits: at most 300 lists of at most 1000 items each.        *)
(* The program runs any number of times, one run after the other; each     *)
(* run draws its desired domain set anew, and every remote call of a run   *)
(* may fail.                                                               *)
(*                                                                         *)
(* Three parts are also run on their own, over all small inputs:           *)
(*   SpecChunk   : chunk_list                                              *)
(*   SpecBuild   : the loop over the sources, convert_to_domain_list and   *)
(*                 the set of unique domains, on texts of characters       *)
(*   SpecTraffic : the traffic expressions of the policy functions         *)
(***************************************************************************)
EXTENDS Integers, Sequences, FiniteSets, TLC

\* ------------------------------------------------------------------ bounds
MaxChunks == 2      \* desired sets have up to MaxChunks * 1000 + 1 domains
MaxPolicies == 2    \* policies of the rule-group present before the first run
MaxN == 8           \* chunk_list: longest input list
MaxC == 5           \* chunk_list: largest chunk size
MaxLines == 3       \* convert_to_domain_list: lines of the sources of a run
MaxIds == 3         \* policy applier: list ids of a policy
MaxTlds == 2        \* policy applier: TLDs of the TLD policy

\* ------------------------------------------------------- program constants
chunk_size == 1000
max_lists == 300

name_prefix == "[CFPihole] Block Ads"
tld_prefix == "[CFPihole] Block TLDs"
other_prefix == "out-of-band"

VARIABLES
    variant,         \* "main" or "config": which implementation runs
    lists,           \* remote: sequence of [id, name, items]
    policies,        \* remote: sequence of [id, name, list_ids]
    pc,              \* position of the run
    outcome,         \* how the current / last run ended
    unique_domains,  \* run(): the desired domains, a list without repeats
    cf_lists,        \* run(): local list of matched / created lists
    cf_policies,     \* run(): local result of get_firewall_policies
    del_i,           \* run(): position of the delete loop in cf_lists
    calls,           \* history: remote calls and sleeps of the current run
    start,           \* history: remote state when the current run started
    retry,           \* history: the run repeats one that a remote error ended
    ctor_calls,      \* history: remote calls of the construction of App(),
                     \*          kept until run() has found config.ini
    rerun,           \* history: the run follows one that completed a replace
                     \*          and has the same desired domains
    chunk_in,        \* chunk_list: input list
    chunk_n,         \* chunk_list: chunk size
    chunk_out,       \* chunk_list: the chunks yielded
    chunk_done,      \* chunk_list: the generator was run to exhaustion
    tldlist,         \* App: self.tldlist, the lines of tldlist.txt
    whitelist,       \* App: self.whitelist, the lines of whitelist.txt
    files,           \* run(): the downloaded files of tmp/, one per source
    file_i,          \* run(): the source the loop over config["Lists"] is at
    all_domains,     \* run(): the domains of the sources converted so far
    converted,       \* history: what convert_to_domain_list returned, per file
    unique_set,      \* run(): set(all_domains), once the loop is over
    policy_ids,      \* policy applier: the list ids it is given
    policy_tlds,     \* policy applier: the TLDs it is given
    traffic,         \* policy applier: the traffic expression it sends
    traffic_by       \* policy applier: the function that built the expression

remote_vars == <<lists, policies>>
local_vars == <<unique_domains, cf_lists, cf_policies, del_i>>
proc_vars == <<retry, ctor_calls, rerun>>
hist_vars == <<calls, start, proc_vars>>
chunk_vars == <<chunk_in, chunk_n, chunk_out, chunk_done>>
build_vars == <<tldlist, whitelist, files, file_i, all_domains, converted,
                unique_set>>
traffic_vars == <<policy_ids, policy_tlds, traffic, traffic_by>>
pure_vars == <<chunk_vars, build_vars, traffic_vars>>
vars == <<variant, lists, policies, pc, outcome, unique_domains,
          cf_lists, cf_policies, del_i, calls, start, retry, ctor_calls, rerun,
          chunk_in, chunk_n, chunk_out, chunk_done,
          tldlist, whitelist, files, file_i, all_domains, converted,
          unique_set, policy_ids, policy_tlds, traffic, traffic_by>>

\* ------------------------------------------------------------ pure helpers
Min(a, b) == IF a < b THEN a ELSE b

\* math.ceil(a / b) for naturals
ceil(a, b) == (a + b - 1) \div b

\* str.startswith on names: a name is its prefix and a trailing index
startswith(name, prefix) == name.prefix = prefix

\* the list comprehension [x for x in data if x["name"].startswith(p)]
filter_prefix(data, prefix) ==
    SelectSeq(data, LAMBDA x : startswith(x.name, prefix))

\* A list of distinct domains is written [lo, hi]: the domains are numbered
\* in the order of the list, from lo to hi. The empty list is [1, 0].
empty_list == [lo |-> 1, hi |-> 0]

\* len(_list)
length(_list) == _list.hi - _list.lo + 1

\* sum([l["count"] for l in cf_lists]); the API's count is the item count
RECURSIVE sum_count(_)
sum_count(ls) ==
    IF ls = <<>> THEN 0 ELSE length(Head(ls).items) + sum_count(Tail(ls))

\* [l["id"] for l in cf_lists]
ids_of(ls) == [k \in 1..Len(ls) |-> ls[k].id]

\* the remote store without the resource of the given id
remove_id(data, id) == SelectSeq(data, LAMBDA x : x.id # id)

\* mutant: the slice stops one item early, _list[a : b - 1]
slice_short(_list, a, b) ==
    IF a >= Min(b - 1, length(_list)) THEN empty_list
    ELSE [lo |-> _list.lo + a, hi |-> _list.lo + Min(b - 1, length(_list)) - 1]

\* _list[a : b], Python's clamped slice (0-based, b exclusive)
slice(_list, a, b) ==
    IF a >= Min(b, length(_list)) THEN empty_list
    ELSE [lo |-> _list.lo + a, hi |-> _list.lo + Min(b, length(_list)) - 1]

\* for i in range(i0, len(_list), n): yield _list[i : i + n]
RECURSIVE chunk_from(_, _, _)
chunk_from(_list, n, i) ==
    IF i >= length(_list) THEN <<>>
    ELSE <<slice(_list, i, i + n)>> \o chunk_from(_list, n, i + n)

\* mutant: the range starts at 1
chunk_list_from_one(_list, n) == chunk_from(_list, n, 1)

chunk_list(_list, n) == chunk_from(_list, n, 0)

\* ------------------------------------------------------------ remote store
\* Names are records [prefix, index]: "<prefix> <index>", index 0 for a
\* name that is the bare prefix.
list_name(prefix, index) == [prefix |-> prefix, index |-> index]

\* The id the store gives the next resource it creates: one that no resource
\* has and no policy refers to (the least such, of the ids from 500 on).
used_ids ==
    {lists[k].id : k \in 1..Len(lists)} \cup
    {policies[k].id : k \in 1..Len(policies)} \cup
    UNION {{policies[k].list_ids[j] : j \in 1..Len(policies[k].list_ids)} :
              k \in 1..Len(policies)}

next_id == CHOOSE i \in 500..(500 + Cardinality(used_ids)) :
               /\ i \notin used_ids
               /\ \A j \in 500..(i - 1) : j \in used_ids

\* POST lists: the store appends the list under a fresh id
remote_create_list(name, domains) ==
    Append(lists, [id |-> next_id, name |-> name, items |-> domains])

\* POST rules with the list-based traffic expression over list_ids
remote_create_policy(name, list_ids) ==
    Append(policies, [id |-> next_id, name |-> list_name(name, 0),
                      list_ids |-> list_ids])

\* PUT rules/<policy_id>: the policy keeps its id and place
remote_update_policy(name, policy_id, list_ids) ==
    [k \in 1..Len(policies) |->
        IF policies[k].id = policy_id
        THEN [id |-> policy_id, name |-> list_name(name, 0),
              list_ids |-> list_ids]
        ELSE policies[k]]

\* what get_lists returns: (lists with the prefix, all lists)
get_lists(prefix) == <<filter_prefix(lists, prefix), lists>>

\* mutant: the filter compares the name with "<prefix> 1" for equality
get_firewall_policies_exact(prefix) ==
    SelectSeq(policies, LAMBDA x : x.name = list_name(prefix, 1))

\* mutant: the policies are returned without the filter on their name
get_firewall_policies_all(prefix) == policies

\* what get_firewall_policies returns
get_firewall_policies(prefix) == filter_prefix(policies, prefix)

\* ---------------------------------------------------------------- planner
\* mutant: the size comparison is missing
plan_without_skip(n_unique, matched, total) ==
    IF ceil(n_unique, chunk_size) + (Len(total) - Len(matched)) > max_lists
    THEN "quota"
    ELSE "replace"

\* mutant: the quota check forgets the lists created outside of the program
plan_without_oob(n_unique, matched, total) ==
    IF n_unique = sum_count(matched) THEN "skip"
    ELSE IF ceil(n_unique, chunk_size) > max_lists
         THEN "quota"
         ELSE "replace"

\* mutant: the quota check is off by one
plan_off_by_one(n_unique, matched, total) ==
    IF n_unique = sum_count(matched) THEN "skip"
    ELSE IF ceil(n_unique, chunk_size) + (Len(total) - Len(matched))
                > max_lists + 1
         THEN "quota"
         ELSE "replace"

\* mutant: the lists found are taken to be full
plan_full_lists(n_unique, matched, total) ==
    IF n_unique = Len(matched) * chunk_size THEN "skip"
    ELSE IF ceil(n_unique, chunk_size) + (Len(total) - Len(matched)) > max_lists
         THEN "quota"
         ELSE "replace"

\* main.py: the if / elif / else that follows get_lists
plan(n_unique, matched, total) ==
    IF n_unique = sum_count(matched) THEN "skip"
    ELSE IF ceil(n_unique, chunk_size) + (Len(total) - Len(matched)) > max_lists
         THEN "quota"
         ELSE "replace"

\* ------------------------------------------------------------------- Init
\* The remote store before the first run. The platform holds at most
\* max_lists lists of at most chunk_size items each.
InitMatched ==
    { <<>>,
      <<[id |-> 1, name |-> list_name(name_prefix, 1), items |-> [lo |-> 1, hi |-> 1]]>> }

InitOob(k) ==
    [j \in 1..k |-> [id |-> 10 + j, name |-> list_name(other_prefix, j),
                     items |-> empty_list]]

InitPolicies(k, matched) ==
    [j \in 1..k |-> [id |-> 400 + j, name |-> list_name(name_prefix, 0),
                     list_ids |-> ids_of(matched)]]

\* an account with out-of-band lists also has a policy of another
\* rule-group, over the first of these lists; the API returns it first
InitOobPolicies(k) ==
    IF k = 0 THEN <<>>
    ELSE <<[id |-> 450, name |-> list_name(other_prefix, 0),
            list_ids |-> <<11>>]>>

OobChoices == {0, max_lists - 2, max_lists - 1, max_lists}

\* sizes of the desired set: none, full chunks, full chunks and one more
Sizes == {0} \cup {k * chunk_size + r : k \in 1..MaxChunks, r \in {0, 1}}

\* two numberings of the domains: desired sets of one size, other content
Numberings == {0, 1}

\* calls on the rule-group's lists and policy that come after the delete of
\* the old policy in a replace
AfterReplaceBegan ==
    {"delete_list", "create_list", "create_rule", "update_rule"}

InitRun ==
    /\ variant \in {"main", "config"}
    /\ \E m \in InitMatched, k \in OobChoices, p \in 0..MaxPolicies :
          /\ Len(m) + k <= max_lists
          /\ lists = m \o InitOob(k)
          /\ policies = InitOobPolicies(k) \o InitPolicies(p, m)
    /\ pc = "idle"
    /\ outcome = "none"
    /\ unique_domains = empty_list
    /\ cf_lists = <<>>
    /\ cf_policies = <<>>
    /\ del_i = 1
    /\ calls = <<>>
    /\ start = [lists |-> lists, policies |-> policies]
    /\ retry = FALSE
    /\ ctor_calls = <<>>
    /\ rerun = "none"

InitChunkIdle ==
    /\ chunk_in = empty_list
    /\ chunk_n = 1
    /\ chunk_out = <<>>
    /\ chunk_done = FALSE

\* no source is being converted
InitBuildIdle ==
    /\ tldlist = <<>>
    /\ whitelist = <<>>
    /\ files = <<>>
    /\ file_i = 1
    /\ all_domains = <<>>
    /\ converted = <<>>
    /\ unique_set = {}

\* no traffic expression is being built
InitTrafficIdle ==
    /\ policy_ids = <<>>
    /\ policy_tlds = <<>>
    /\ traffic = <<>>
    /\ traffic_by = "none"

Init == InitRun /\ InitChunkIdle /\ InitBuildIdle /\ InitTrafficIdle

\* ------------------------------------------------------- steps of a run
\* the run ends: by return or by an exception leaving run()
finish(how) == pc' = "idle" /\ outcome' = how

log(events) == calls' = calls \o events

\* the history a call goes to: the constructor's or the run's
log_call(events) ==
    IF pc = "load_tldlist"
    THEN ctor_calls' = ctor_calls \o events /\ calls' = calls
    ELSE log(events) /\ ctor_calls' = ctor_calls

\* python main.py: the imports run cloudflare's credentials check, then
\* App() is constructed; load_tldlist finds tldlist.txt missing, empty or
\* with content. A run that repeats an aborted replace is remembered.
process_start ==
    /\ pc = "idle"
    /\ \E credentials \in BOOLEAN, tld_file \in {"missing", "empty", "content"} :
          IF ~credentials
          THEN finish("missing_credentials")
          ELSE /\ outcome' = "starting"
               /\ pc' = IF variant = "main" /\ tld_file = "empty"
                        THEN "load_tldlist" ELSE "run"
    /\ calls' = <<>>
    /\ ctor_calls' = <<>>
    /\ start' = [lists |-> lists, policies |-> policies]
    /\ retry' = /\ outcome = "remote_error"
                 /\ calls # <<>>
                 /\ calls[Len(calls)] \in AfterReplaceBegan
    /\ rerun' = IF outcome = "done" THEN "done_before" ELSE "none"
    /\ cf_lists' = <<>>
    /\ cf_policies' = <<>>
    /\ del_i' = 1
    /\ UNCHANGED <<variant, remote_vars, unique_domains, pure_vars>>

\* tld.delete_tld_policy(): the policy applier's delete on the TLD
\* rule-group; the policy found, if any, is deleted
delete_tld_policy == remove_id(policies, get_firewall_policies(tld_prefix)[1].id)

\* load_tldlist: tldlist.txt exists and holds no TLD
load_tldlist ==
    /\ pc = "load_tldlist"
    /\ IF get_firewall_policies(tld_prefix) = <<>>
       THEN /\ UNCHANGED policies
            /\ ctor_calls' = <<"get_rules">>
       ELSE /\ policies' = delete_tld_policy
            /\ ctor_calls' = <<"get_rules", "delete_rule">>
    /\ pc' = "run"
    /\ UNCHANGED <<variant, lists, outcome, local_vars, calls, start, retry,
                   rerun, pure_vars>>

\* main.py: run() up to the desired set; without config.ini it logs an
\* error and returns
run_start ==
    /\ pc = "run"
    /\ \E config \in BOOLEAN :
          IF ~config
          THEN /\ finish("missing_config")
               /\ retry' = FALSE
               /\ rerun' = "none"
               /\ UNCHANGED <<unique_domains, ctor_calls>>
          ELSE /\ \E n \in Sizes, s \in Numberings :
                     unique_domains' = IF n = 0 THEN empty_list
                                       ELSE [lo |-> s + 1, hi |-> s + n]
               /\ pc' = "get_lists"
               /\ outcome' = "running"
               /\ retry' = (retry /\ unique_domains' = unique_domains)
               /\ rerun' = IF /\ rerun = "done_before"
                               /\ unique_domains' = unique_domains
                            THEN "same_again" ELSE "none"
               /\ ctor_calls' = <<>>
    /\ start' = [lists |-> lists, policies |-> policies]
    /\ UNCHANGED <<variant, remote_vars, cf_lists, cf_policies, del_i, calls,
                   pure_vars>>

\* the remote call the run is about to issue
call_at(at) ==
    CASE at = "load_tldlist" -> "get_rules"
      [] at = "get_lists" -> "get_lists"
      [] at = "get_policies" -> "get_rules"
      [] at = "delete_policy" -> "delete_rule"
      [] at = "delete_list" -> "delete_list"
      [] at = "create_list" -> "create_list"
      [] at = "tld_policy" -> "tld_rule"
      [] at = "get_policies2" -> "get_rules"
      [] at = "create_policy" -> "create_rule"
      [] at = "update_policy" -> "update_rule"

\* the positions at which the run issues a remote call
issues_call ==
    /\ pc \in {"load_tldlist",
               "get_lists", "get_policies", "delete_policy", "delete_list",
               "create_list", "tld_policy", "get_policies2", "create_policy",
               "update_policy"}
    /\ ~(variant = "main" /\ pc = "delete_list")

\* mutant: the error is caught and logged, and the run goes on
api_call_swallows ==
    /\ issues_call
    /\ log_call(<<call_at(pc)>>)
    /\ outcome' = "remote_error"
    /\ UNCHANGED <<variant, remote_vars, pc, local_vars, start,
                   retry, rerun, pure_vars>>

\* api_call: raise_for_status() raises and nothing catches it
api_call_raises ==
    /\ issues_call
    /\ log_call(<<call_at(pc)>>)
    /\ finish("remote_error")
    /\ UNCHANGED <<variant, remote_vars, local_vars, start, retry,
                   rerun, pure_vars>>

\* ---------------------------------------------- variant "main": App.run
\* delete_list is defined with two required parameters (list_id, name) ...
delete_list_params == 2
\* ... and App.run calls it with one argument, l["id"]
run_delete_list_args == 1

\* where the run goes once the policy is out of the way
after_policy == IF cf_lists = <<>> THEN "pause" ELSE "delete_list"

\* cf_lists, total_cf_lists = cloudflare.get_lists(name_prefix), then the
\* size comparison and the quota check
run_get_lists ==
    /\ variant = "main"
    /\ pc = "get_lists"
    /\ LET matched == get_lists(name_prefix)[1]
           total_cf_lists == get_lists(name_prefix)[2]
           decision == plan(length(unique_domains), matched, total_cf_lists)
       IN  /\ cf_lists' = matched
           /\ IF decision = "replace"
              THEN pc' = "get_policies" /\ outcome' = outcome
              ELSE finish(decision)
    /\ log(<<"get_lists">>)
    /\ UNCHANGED <<variant, remote_vars, unique_domains, cf_policies, del_i,
                   start, proc_vars, pure_vars>>

\* cf_policies = cloudflare.get_firewall_policies(name_prefix)
run_get_policies ==
    /\ variant = "main"
    /\ pc = "get_policies"
    /\ cf_policies' = get_firewall_policies(name_prefix)
    /\ pc' = IF Len(cf_policies') > 0 THEN "delete_policy" ELSE after_policy
    /\ log(<<"get_rules">>)
    /\ UNCHANGED <<variant, remote_vars, outcome, unique_domains, cf_lists,
                   del_i, start, proc_vars, pure_vars>>

\* if len(cf_policies) > 0: delete_firewall_policy(cf_policies[0]["id"])
run_delete_policy ==
    /\ variant = "main"
    /\ pc = "delete_policy"
    /\ policies' = remove_id(policies, cf_policies[1].id)
    /\ pc' = after_policy
    /\ log(<<"delete_rule">>)
    /\ UNCHANGED <<variant, lists, outcome, local_vars, start,
                   proc_vars, pure_vars>>

\* for l in cf_lists: cloudflare.delete_list(l["id"]); time.sleep(0.75)
\* The call does not bind delete_list's parameters: Python raises TypeError
\* before the function body, so no request is sent and run() is left.
run_delete_list ==
    /\ variant = "main"
    /\ pc = "delete_list"
    /\ IF run_delete_list_args # delete_list_params
       THEN /\ finish("type_error")
            /\ UNCHANGED <<lists, del_i, calls>>
       ELSE /\ lists' = remove_id(lists, cf_lists[del_i].id)
            /\ del_i' = del_i + 1
            /\ pc' = IF del_i < Len(cf_lists) THEN "delete_list" ELSE "pause"
            /\ outcome' = outcome
            /\ log(<<"delete_list", "sleep">>)
    /\ UNCHANGED <<variant, policies, unique_domains, cf_lists,
                   cf_policies, start, proc_vars, pure_vars>>

\* cf_lists = []; time.sleep(60)
run_pause ==
    /\ variant = "main"
    /\ pc = "pause"
    /\ cf_lists' = <<>>
    /\ pc' = IF chunk_list(unique_domains, chunk_size) = <<>>
             THEN "tld_policy" ELSE "create_list"
    /\ log(<<"sleep60">>)
    /\ UNCHANGED <<variant, remote_vars, outcome, unique_domains, cf_policies,
                   del_i, start, proc_vars, pure_vars>>

\* mutant: the lists are numbered from 0
run_create_list_zero_based ==
    /\ variant = "main"
    /\ pc = "create_list"
    /\ LET chunks == chunk_list(unique_domains, chunk_size)
           chunk == chunks[Len(cf_lists) + 1]
           name == list_name(name_prefix, Len(cf_lists))
       IN  /\ lists' = remote_create_list(name, chunk)
           /\ cf_lists' = Append(cf_lists, lists'[Len(lists')])
           /\ pc' = IF Len(cf_lists') < Len(chunks)
                    THEN "create_list" ELSE "tld_policy"
    /\ log(<<"create_list", "sleep">>)
    /\ UNCHANGED <<variant, policies, outcome, unique_domains, cf_policies,
                   del_i, start, proc_vars, pure_vars>>

\* for chunk in self.chunk_list(unique_domains, 1000): create_list(...)
run_create_list ==
    /\ variant = "main"
    /\ pc = "create_list"
    /\ LET chunks == chunk_list(unique_domains, chunk_size)
           chunk == chunks[Len(cf_lists) + 1]
           name == list_name(name_prefix, Len(cf_lists) + 1)
       IN  /\ lists' = remote_create_list(name, chunk)
           /\ cf_lists' = Append(cf_lists, lists'[Len(lists')])
           /\ pc' = IF Len(cf_lists') < Len(chunks)
                    THEN "create_list" ELSE "tld_policy"
    /\ log(<<"create_list", "sleep">>)
    /\ UNCHANGED <<variant, policies, outcome, unique_domains, cf_policies,
                   del_i, start, proc_vars, pure_vars>>

\* tld.create_tld_policy(self.tldlist): the policy applier on the TLD
\* rule-group; create the policy if the rule-group has none
run_tld_policy ==
    /\ variant = "main"
    /\ pc = "tld_policy"
    /\ IF get_firewall_policies(tld_prefix) = <<>>
       THEN policies' = remote_create_policy(tld_prefix, <<>>)
               ELSE UNCHANGED policies
    /\ pc' = "get_policies2"
    /\ log(<<"tld_rule">>)
    /\ UNCHANGED <<variant, lists, outcome, local_vars, start, proc_vars,
                   pure_vars>>

\* cf_policies = get_firewall_policies(name_prefix), then the three-way if
run_get_policies2 ==
    /\ variant = "main"
    /\ pc = "get_policies2"
    /\ cf_policies' = get_firewall_policies(name_prefix)
    /\ IF Len(cf_policies') = 0
       THEN pc' = "create_policy" /\ outcome' = outcome
       ELSE IF Len(cf_policies') # 1
            THEN finish("integrity_error")
            ELSE pc' = "update_policy" /\ outcome' = outcome
    /\ log(<<"get_rules">>)
    /\ UNCHANGED <<variant, remote_vars, unique_domains, cf_lists, del_i,
                   start, proc_vars, pure_vars>>

\* cloudflare.create_gateway_policy(name_prefix, [l["id"] for l in cf_lists])
run_create_policy ==
    /\ variant = "main"
    /\ pc = "create_policy"
    /\ policies' = remote_create_policy(name_prefix, ids_of(cf_lists))
    /\ finish("done")
    /\ log(<<"create_rule">>)
    /\ UNCHANGED <<variant, lists, local_vars, start, proc_vars,
                   pure_vars>>

\* cloudflare.update_gateway_policy(name_prefix, cf_policies[0]["id"], ids)
run_update_policy ==
    /\ variant = "main"
    /\ pc = "update_policy"
    /\ policies' = remote_update_policy(name_prefix, cf_policies[1].id,
                                        ids_of(cf_lists))
    /\ finish("done")
    /\ log(<<"update_rule">>)
    /\ UNCHANGED <<variant, lists, local_vars, start, proc_vars,
                   pure_vars>>

\* ------------------------- variant "config": cloudflare_config functions
\* The caller of delete_lists_policy and create_lists_policy: it reads the
\* lists through get_block_lists, plans as the reconciliation planner does
\* and, on a full replace, calls the two functions in turn.
config_get_lists ==
    /\ variant = "config"
    /\ pc = "get_lists"
    /\ LET matched == get_lists(name_prefix)[1]
           total_cf_lists == get_lists(name_prefix)[2]
           decision == plan(length(unique_domains), matched, total_cf_lists)
       IN  /\ cf_lists' = matched
           /\ IF decision = "replace"
              THEN pc' = "get_policies" /\ outcome' = outcome
              ELSE finish(decision)
    /\ log(<<"get_lists">>)
    /\ UNCHANGED <<variant, remote_vars, unique_domains, cf_policies, del_i,
                   start, proc_vars, pure_vars>>

\* mutant: the old policy is left for create_firewall_policy to replace
delete_firewall_policy_get_keeps ==
    /\ variant = "config"
    /\ pc = "get_policies"
    /\ cf_policies' = get_firewall_policies(name_prefix)
    /\ IF Len(cf_policies') \in {0, 1}
       THEN pc' = after_policy /\ outcome' = outcome
       ELSE finish("integrity_error")
    /\ log(<<"get_rules">>)
    /\ UNCHANGED <<variant, remote_vars, unique_domains, cf_lists, del_i,
                   start, proc_vars, pure_vars>>

\* mutant: whatever their number, the first policy found is deleted
delete_firewall_policy_get_first ==
    /\ variant = "config"
    /\ pc = "get_policies"
    /\ cf_policies' = get_firewall_policies(name_prefix)
    /\ pc' = IF Len(cf_policies') > 0 THEN "delete_policy" ELSE after_policy
    /\ log(<<"get_rules">>)
    /\ UNCHANGED <<variant, remote_vars, outcome, unique_domains, cf_lists,
                   del_i, start, proc_vars, pure_vars>>

\* delete_firewall_policy: get_gateway_policies and the checks on their number
delete_firewall_policy_get ==
    /\ variant = "config"
    /\ pc = "get_policies"
    /\ cf_policies' = get_firewall_policies(name_prefix)
    /\ IF Len(cf_policies') = 0
       THEN pc' = after_policy /\ outcome' = outcome
       ELSE IF Len(cf_policies') # 1
            THEN finish("integrity_error")
            ELSE pc' = "delete_policy" /\ outcome' = outcome
    /\ log(<<"get_rules">>)
    /\ UNCHANGED <<variant, remote_vars, unique_domains, cf_lists, del_i,
                   start, proc_vars, pure_vars>>

\* delete_firewall_policy: the delete of the one policy found
delete_firewall_policy ==
    /\ variant = "config"
    /\ pc = "delete_policy"
    /\ policies' = remove_id(policies, cf_policies[1].id)
    /\ pc' = after_policy
    /\ log(<<"delete_rule">>)
    /\ UNCHANGED <<variant, lists, outcome, local_vars, start,
                   proc_vars, pure_vars>>

\* delete_lists_policy: for l in cf_lists: delete_list(l["id"], l["name"]);
\* time.sleep(1.5)
delete_lists_policy ==
    /\ variant = "config"
    /\ pc = "delete_list"
    /\ lists' = remove_id(lists, cf_lists[del_i].id)
    /\ del_i' = del_i + 1
    /\ pc' = IF del_i < Len(cf_lists) THEN "delete_list" ELSE "pause"
    /\ log(<<"delete_list", "sleep">>)
    /\ UNCHANGED <<variant, policies, outcome, unique_domains,
                   cf_lists, cf_policies, start, proc_vars, pure_vars>>

\* mutant: the creation starts without the pause of 60 seconds
create_lists_policy_no_pause ==
    /\ variant = "config"
    /\ pc = "pause"
    /\ cf_lists' = <<>>
    /\ pc' = IF chunk_list(unique_domains, chunk_size) = <<>>
             THEN "get_policies2" ELSE "create_list"
    /\ UNCHANGED <<variant, remote_vars, outcome, unique_domains, cf_policies,
                   del_i, calls, start, proc_vars, pure_vars>>

\* create_lists_policy: time.sleep(60); cf_lists = []
create_lists_policy_pause ==
    /\ variant = "config"
    /\ pc = "pause"
    /\ cf_lists' = <<>>
    /\ pc' = IF chunk_list(unique_domains, chunk_size) = <<>>
             THEN "get_policies2" ELSE "create_list"
    /\ log(<<"sleep60">>)
    /\ UNCHANGED <<variant, remote_vars, outcome, unique_domains, cf_policies,
                   del_i, start, proc_vars, pure_vars>>

\* create_lists_policy: for chunk in chunk_list(unique_domains, 1000)
create_lists_policy ==
    /\ variant = "config"
    /\ pc = "create_list"
    /\ LET chunks == chunk_list(unique_domains, chunk_size)
           chunk == chunks[Len(cf_lists) + 1]
           name == list_name(name_prefix, Len(cf_lists) + 1)
       IN  /\ lists' = remote_create_list(name, chunk)
           /\ cf_lists' = Append(cf_lists, lists'[Len(lists')])
           /\ pc' = IF Len(cf_lists') < Len(chunks)
                    THEN "create_list" ELSE "get_policies2"
    /\ log(<<"create_list", "sleep">>)
    /\ UNCHANGED <<variant, policies, outcome, unique_domains, cf_policies,
                   del_i, start, proc_vars, pure_vars>>

\* create_firewall_policy: get_gateway_policies; more than one policy raises
create_firewall_policy_get ==
    /\ variant = "config"
    /\ pc = "get_policies2"
    /\ cf_policies' = get_firewall_policies(name_prefix)
    /\ IF Len(cf_policies') \in {0, 1}
       THEN pc' = "create_policy" /\ outcome' = outcome
       ELSE finish("integrity_error")
    /\ log(<<"get_rules">>)
    /\ UNCHANGED <<variant, remote_vars, unique_domains, cf_lists, del_i,
                   start, proc_vars, pure_vars>>

\* create_firewall_policy: create the policy; with one policy found, delete
\* it first (delete_firewall_policy has run before, so none is found here)
create_firewall_policy ==
    /\ variant = "config"
    /\ pc = "create_policy"
    /\ LET kept == IF Len(cf_policies) = 1
                   THEN remove_id(policies, cf_policies[1].id)
                   ELSE policies
       IN  policies' = Append(kept, [id |-> next_id,
                                     name |-> list_name(name_prefix, 0),
                                     list_ids |-> ids_of(cf_lists)])
    /\ finish("done")
    /\ log(IF Len(cf_policies) = 1 THEN <<"delete_rule", "create_rule">>
           ELSE <<"create_rule">>)
    /\ UNCHANGED <<variant, lists, local_vars, start, proc_vars,
                   pure_vars>>

\* ------------------------------------------------------------ the program
Next ==
    \/ process_start
    \/ load_tldlist
    \/ run_start
    \/ api_call_raises
    \/ run_get_lists
    \/ run_get_policies
    \/ run_delete_policy
    \/ run_delete_list
    \/ run_pause
    \/ run_create_list
    \/ run_tld_policy
    \/ run_get_policies2
    \/ run_create_policy
    \/ run_update_policy
    \/ config_get_lists
    \/ delete_firewall_policy_get
    \/ delete_firewall_policy
    \/ delete_lists_policy
    \/ create_lists_policy_pause
    \/ create_lists_policy
    \/ create_firewall_policy_get
    \/ create_firewall_policy

Spec == Init /\ [][Next]_vars

\* ------------------------------------------------- chunk_list on its own
\* lists without repeats of up to MaxN domains
ChunkInputs ==
    {empty_list} \cup
    {[lo |-> s + 1, hi |-> s + n] : n \in 1..MaxN, s \in Numberings}

InitChunk ==
    /\ chunk_in \in ChunkInputs
    /\ chunk_n \in 1..MaxC
    /\ chunk_out = <<>>
    /\ chunk_done = FALSE

InitRunIdle ==
    /\ variant = "main"
    /\ lists = <<>>
    /\ policies = <<>>
    /\ pc = "idle"
    /\ outcome = "none"
    /\ unique_domains = empty_list
    /\ cf_lists = <<>>
    /\ cf_policies = <<>>
    /\ del_i = 1
    /\ calls = <<>>
    /\ start = [lists |-> <<>>, policies |-> <<>>]
    /\ retry = FALSE
    /\ ctor_calls = <<>>
    /\ rerun = "none"

\* list(chunk_list(_list, n)): the generator run to exhaustion
chunk_apply ==
    /\ ~chunk_done
    /\ chunk_out' = chunk_list(chunk_in, chunk_n)
    /\ chunk_done' = TRUE
    /\ UNCHANGED <<variant, remote_vars, pc, outcome, local_vars, hist_vars,
                   chunk_in, chunk_n, build_vars, traffic_vars>>

NextChunk == chunk_apply

InitChunkSpec ==
    InitRunIdle /\ InitChunk /\ InitBuildIdle /\ InitTrafficIdle

SpecChunk == InitChunkSpec /\ [][NextChunk]_vars

\* ------------------------------------------------------------------ strings
\* A str is the sequence of its characters, each a one-character string.
\* Of the characters of the inputs, the blank is the only white space and
\* "\n" the only line boundary.
isspace(c) == c = " "

\* s.startswith(p), s.endswith(p), sub in s
str_startswith(s, p) == Len(p) <= Len(s) /\ SubSeq(s, 1, Len(p)) = p
str_endswith(s, p) ==
    Len(p) <= Len(s) /\ SubSeq(s, Len(s) - Len(p) + 1, Len(s)) = p
contains(s, sub) ==
    \E i \in 1..(Len(s) - Len(sub) + 1) : SubSeq(s, i, i + Len(sub) - 1) = sub

\* s.lstrip(), s.rstrip(), s.strip()
RECURSIVE lstrip(_)
lstrip(s) == IF s # <<>> /\ isspace(Head(s)) THEN lstrip(Tail(s)) ELSE s
RECURSIVE rstrip(_)
rstrip(s) ==
    IF s # <<>> /\ isspace(s[Len(s)]) THEN rstrip(SubSeq(s, 1, Len(s) - 1))
    ELSE s
strip(s) == lstrip(rstrip(s))

\* the position of the first character of s that is in cs, Len(s) + 1 if none
find_first(s, cs) ==
    IF \E i \in 1..Len(s) : s[i] \in cs
    THEN CHOOSE i \in 1..Len(s) :
             s[i] \in cs /\ \A j \in 1..(i - 1) : s[j] \notin cs
    ELSE Len(s) + 1

\* s.split(): the maximal runs of characters that are not white space
RECURSIVE split(_)
split(s) ==
    LET t == lstrip(s)
        n == find_first(t, {" "})
    IN  IF t = <<>> THEN <<>>
        ELSE <<SubSeq(t, 1, n - 1)>> \o split(SubSeq(t, n, Len(t)))

\* data.splitlines(): the lines without their boundaries, no last empty line
RECURSIVE splitlines(_)
splitlines(data) ==
    LET n == find_first(data, {"\n"})
    IN  IF data = <<>> THEN <<>>
        ELSE <<SubSeq(data, 1, n - 1)>> \o splitlines(SubSeq(data, n + 1, Len(data)))

\* ------------------------------------------------ convert_to_domain_list
w_localhost == <<"l", "o", "c", "a", "l", "h", "o", "s", "t">>
ip_loopback == <<"1", "2", "7", ".", "0", ".", "0", ".", "1">>
ip_loopback6 == <<":", ":", "1">>
ip_any == <<"0", ".", "0", ".", "0", ".", "0">>

\* ["localhost ", "127.0.0.1 ", "::1 ", "0.0.0.0 "]
hosts_markers ==
    {w_localhost \o <<" ">>, ip_loopback \o <<" ">>, ip_loopback6 \o <<" ">>,
     ip_any \o <<" ">>}

\* mutant: only the first line is scanned for a marker
is_hosts_file_first_line(data) ==
    \E ip \in hosts_markers :
        contains(IF splitlines(data) = <<>> THEN <<>> ELSE splitlines(data)[1], ip)

\* is_hosts_file = any(ip in data for ip in [...])
is_hosts_file(data) == \E ip \in hosts_markers : contains(data, ip)

\* mutant: the allow-list is looked at for the lines of a domain list only
line_domains_whitelist_plain_only(line, hosts, tlds, allowed) ==
    IF str_startswith(line, <<"#">>) \/ str_startswith(line, <<";">>)
          \/ strip(line) = <<>>
    THEN <<>>
    ELSE IF tlds # <<>> /\ ~(\E k \in 1..Len(tlds) : str_endswith(line, tlds[k]))
    THEN <<>>
    ELSE IF hosts
    THEN IF Len(split(line)) > 1
         THEN IF rstrip(split(line)[2]) = w_localhost THEN <<>>
              ELSE <<rstrip(split(line)[2])>>
         ELSE <<>>
    ELSE IF \E k \in 1..Len(allowed) : allowed[k] = rstrip(line) THEN <<>>
    ELSE <<rstrip(line)>>

\* the body of the loop over data.splitlines(): what the line appends to
\* domains, <<>> where it reaches a continue
line_domains(line, hosts, tlds, allowed) ==
    IF str_startswith(line, <<"#">>) \/ str_startswith(line, <<";">>)
          \/ strip(line) = <<>>
    THEN <<>>
    ELSE IF tlds # <<>> /\ ~(\E k \in 1..Len(tlds) : str_endswith(line, tlds[k]))
    THEN <<>>
    ELSE IF hosts /\ Len(split(line)) <= 1
    THEN <<>>
    ELSE LET domain == IF hosts THEN rstrip(split(line)[2]) ELSE rstrip(line)
         IN  IF hosts /\ domain = w_localhost THEN <<>>
             ELSE IF \E k \in 1..Len(allowed) : allowed[k] = domain THEN <<>>
             ELSE <<domain>>

RECURSIVE lines_domains(_, _, _, _)
lines_domains(ls, hosts, tlds, allowed) ==
    IF ls = <<>> THEN <<>>
    ELSE line_domains(Head(ls), hosts, tlds, allowed)
             \o lines_domains(Tail(ls), hosts, tlds, allowed)

\* convert_to_domain_list on the content of the file, with self.tldlist and
\* self.whitelist
convert_to_domain_list(data, tlds, allowed) ==
    lines_domains(splitlines(data), is_hosts_file(data), tlds, allowed)

\* ----------------------------------------- the loop over the sources alone
\* words and lines the sources are made of
w_ads == <<"a", "d", "s">>
w_Ads == <<"A", "d", "s">>
w_track == <<"t", "r", "a", "c", "k">>
w_example == <<"e", "x", "a", "m", "p", "l", "e">>
w_com == <<"c", "o", "m">>
w_org == <<"o", "r", "g">>
ads_example_com == w_ads \o <<".">> \o w_example \o <<".">> \o w_com
Ads_example_com == w_Ads \o <<".">> \o w_example \o <<".">> \o w_com
track_example_org == w_track \o <<".">> \o w_example \o <<".">> \o w_org
hosts_ads == ip_loopback \o <<" ">> \o ads_example_com
hosts_localhost == ip_loopback \o <<" ">> \o w_localhost

SourceLines ==
    { hosts_ads,                   \* 127.0.0.1 ads.example.com
      hosts_localhost,             \* 127.0.0.1 localhost
      ads_example_com,             \* ads.example.com
      Ads_example_com,             \* Ads.example.com
      ads_example_com \o <<".">>,  \* ads.example.com.
      track_example_org,           \* track.example.org
      <<"#">> \o ads_example_com,  \* #ads.example.com
      <<>> }                       \* an empty line

\* a file: its lines, each closed by a line boundary
RECURSIVE file_of(_)
file_of(ls) ==
    IF ls = <<>> THEN <<>> ELSE Head(ls) \o <<"\n">> \o file_of(Tail(ls))

TldLists == {<<>>, <<w_com>>}
Whitelists == {<<>>, <<ads_example_com>>}

\* two sources, with up to MaxLines lines between them
InitBuild ==
    /\ tldlist \in TldLists
    /\ whitelist \in Whitelists
    /\ \E n \in 0..MaxLines : \E ls \in [1..n -> SourceLines] : \E cut \in 0..n :
          files = <<file_of(SubSeq(ls, 1, cut)), file_of(SubSeq(ls, cut + 1, n))>>
    /\ file_i = 1
    /\ all_domains = <<>>
    /\ converted = <<>>
    /\ unique_set = {}

\* for domain_list in config["Lists"]: one pass of the loop
\* (download_file has put the source in tmp/)
convert_file ==
    /\ file_i <= Len(files)
    /\ LET domains == convert_to_domain_list(files[file_i], tldlist, whitelist)
       IN  /\ all_domains' = all_domains \o domains
           /\ converted' = Append(converted, domains)
    /\ file_i' = file_i + 1
    /\ UNCHANGED <<variant, remote_vars, pc, outcome, local_vars, hist_vars,
                   chunk_vars, traffic_vars, tldlist, whitelist, files,
                   unique_set>>

\* unique_domains = list(set(all_domains))
make_unique ==
    /\ file_i = Len(files) + 1
    /\ unique_set' = {all_domains[k] : k \in 1..Len(all_domains)}
    /\ file_i' = file_i + 1
    /\ UNCHANGED <<variant, remote_vars, pc, outcome, local_vars, hist_vars,
                   chunk_vars, traffic_vars, tldlist, whitelist, files,
                   all_domains, converted>>

NextBuild == convert_file \/ make_unique

InitBuildSpec ==
    InitRunIdle /\ InitChunkIdle /\ InitBuild /\ InitTrafficIdle

SpecBuild == InitBuildSpec /\ [][NextBuild]_vars

\* ------------------------------------------------- traffic expressions
\* sep.join(strs)
RECURSIVE join(_, _)
join(sep, strs) ==
    IF strs = <<>> THEN <<>>
    ELSE IF Len(strs) = 1 THEN strs[1]
    ELSE strs[1] \o sep \o join(sep, Tail(strs))

\* s.replace(c, new) for a character c
RECURSIVE replace(_, _, _)
replace(s, c, new) ==
    IF s = <<>> THEN <<>>
    ELSE (IF Head(s) = c THEN new ELSE <<Head(s)>>) \o replace(Tail(s), c, new)

\* s.lstrip(c) for a character c
RECURSIVE lstrip_char(_, _)
lstrip_char(s, c) ==
    IF s # <<>> /\ Head(s) = c THEN lstrip_char(Tail(s), c) ELSE s

\* the characters of the TLDs, in the order of their code points
code_points == <<".", "c", "g", "m", "o", "r">>
ord(c) == CHOOSE i \in 1..Len(code_points) : code_points[i] = c

\* a < b for str
RECURSIVE str_lt(_, _)
str_lt(a, b) ==
    IF b = <<>> THEN FALSE
    ELSE IF a = <<>> THEN TRUE
    ELSE IF Head(a) # Head(b) THEN ord(Head(a)) < ord(Head(b))
    ELSE str_lt(Tail(a), Tail(b))

\* sorted(S) for a set of str
RECURSIVE sorted(_)
sorted(S) ==
    IF S = {} THEN <<>>
    ELSE LET least == CHOOSE x \in S : \A y \in S : x = y \/ str_lt(x, y)
         IN  <<least>> \o sorted(S \ {least})

any_in ==
    <<"a", "n", "y", "(", "d", "n", "s", ".", "d", "o", "m", "a", "i", "n",
      "s", "[", "*", "]", " ", "i", "n", " ", "$">>
any_matches ==
    <<"a", "n", "y", "(", "d", "n", "s", ".", "d", "o", "m", "a", "i", "n",
      "s", "[", "*", "]", " ", "m", "a", "t", "c", "h", "e", "s", " ",
      "\"">>
str_None == <<"N", "o", "n", "e">>

\* mutant: the separator is " or "
list_traffic_spaced(list_ids) ==
    join(<<" ", "o", "r", " ">>,
         [k \in 1..Len(list_ids) |-> any_in \o list_ids[k] \o <<")">>])

\* "or".join([f"any(dns.domains[*] in ${l})" for l in list_ids])
list_traffic(list_ids) ==
    join(<<"o", "r">>,
         [k \in 1..Len(list_ids) |-> any_in \o list_ids[k] \o <<")">>])

\* f'not(any(dns.domains[*] matches "{regex_tld}"))'
tld_traffic(regex_tld) ==
    <<"n", "o", "t", "(">> \o any_matches \o regex_tld \o <<"\"", ")", ")">>

\* cloudflare_api.create_gateway_policy: the conditional expression
api_traffic(list_ids, regex_tld) ==
    IF list_ids # <<>> THEN list_traffic(list_ids)
    ELSE <<"(">> \o any_matches \o regex_tld \o <<"\"", ")", ")">>

\* create_firewall_policy: sorted(set(tld.replace(".", "") ...)), then
\* rf"[.](|{"|".join(unique_tlds)})$"
config_regex_tld(tlds) ==
    LET unique_tlds ==
            sorted({replace(tlds[k], ".", <<>>) : k \in 1..Len(tlds)})
    IN  <<"[", ".", "]", "(", "|">> \o join(<<"|">>, unique_tlds)
            \o <<")", "$">>

\* tld.py: "[.](" + tldlist.replace(".", "|").lstrip("|").replace("\n", "")
\* + ")$" on the content of tldlist.txt
tld_regex(content) ==
    <<"[", ".", "]", "(">>
        \o replace(lstrip_char(replace(content, ".", <<"|">>), "|"),
                   "\n", <<>>)
        \o <<")", "$">>

\* ---------------------------------------- the policy applier on its own
ListIds == {<<"A">>, <<"B">>, <<"C">>}
TldEntries == {<<".">> \o w_com, <<".">> \o w_org, w_com}

InitTraffic ==
    /\ \E n \in 0..MaxIds : policy_ids \in [1..n -> ListIds]
    /\ \E n \in 0..MaxTlds : policy_tlds \in [1..n -> TldEntries]
    /\ traffic = <<>>
    /\ traffic_by = "none"

\* the expression is sent
sends(expr, by) ==
    /\ traffic' = expr
    /\ traffic_by' = by
    /\ UNCHANGED <<variant, remote_vars, pc, outcome, local_vars, hist_vars,
                   chunk_vars, build_vars, policy_ids, policy_tlds>>

\* cloudflare.create_gateway_policy(name, list_ids)
apply_create_gateway_policy ==
    /\ traffic_by = "none"
    /\ sends(list_traffic(policy_ids), "create_gateway_policy")

\* cloudflare.update_gateway_policy(name, policy_id, list_ids)
apply_update_gateway_policy ==
    /\ traffic_by = "none"
    /\ sends(list_traffic(policy_ids), "update_gateway_policy")

\* cloudflare_config.create_firewall_policy(name_prefix, list_ids) for the
\* rule-group of the domain lists: regex_tld stays None
apply_create_firewall_policy ==
    /\ traffic_by = "none"
    /\ sends(api_traffic(policy_ids, str_None), "create_firewall_policy")

\* cloudflare_config.create_firewall_policy(name_prefix, tlds) for a
\* rule-group with "TLDs" in its name: list_ids becomes None
apply_create_firewall_policy_tld ==
    /\ traffic_by = "none"
    /\ sends(api_traffic(<<>>, config_regex_tld(policy_tlds)),
             "create_firewall_policy_tld")

\* tld.py App.run with the TLDs as the lines of tldlist.txt; the create and
\* the update build the same expression
apply_tld_run ==
    /\ traffic_by = "none"
    /\ file_of(policy_tlds) # <<>>
    /\ sends(tld_traffic(tld_regex(file_of(policy_tlds))), "tld_run")

NextTraffic ==
    \/ apply_create_gateway_policy
    \/ apply_update_gateway_policy
    \/ apply_create_firewall_policy
    \/ apply_create_firewall_policy_tld
    \/ apply_tld_run

InitTrafficSpec ==
    InitRunIdle /\ InitChunkIdle /\ InitBuildIdle /\ InitTraffic

SpecTraffic == InitTrafficSpec /\ [][NextTraffic]_vars

\* ================================================================ claims
Range(seq) == {seq[k] : k \in 1..Len(seq)}

\* the domains of a list, as a sequence and as a set
Expand(_list) == [k \in 1..length(_list) |-> _list.lo + k - 1]
Domains(_list) == _list.lo .. _list.hi

RECURSIVE Flatten(_)
Flatten(chunks) ==
    IF chunks = <<>> THEN <<>>
    ELSE Expand(Head(chunks)) \o Flatten(Tail(chunks))

Mutating ==
    {"delete_rule", "delete_list", "create_list", "create_rule",
     "update_rule", "tld_rule"}

\* the lists / policies of the rule-group when the run started, and now
matched0 == filter_prefix(start.lists, name_prefix)
policies0 == filter_prefix(start.policies, name_prefix)
matched_now == filter_prefix(lists, name_prefix)
policies_now == filter_prefix(policies, name_prefix)

\* the run got the answer of get_lists and has planned
Planned ==
    /\ calls # <<>>
    /\ ~(outcome = "remote_error" /\ Len(calls) = 1)

NoMutatingCall == \A k \in 1..Len(calls) : calls[k] \notin Mutating

RemoteUntouched == lists = start.lists /\ policies = start.policies

\* C1: when the number of unique desired domains equals the sum of the item
\* counts of the remote lists with the rule-group prefix, the run decides
\* Skip, issues no create, update or delete call, and leaves the remote lists
\* and policies as they were.
C1_SkipFastPath ==
    (Planned /\ length(unique_domains) = sum_count(matched0))
        => (outcome = "skip" /\ NoMutatingCall /\ RemoteUntouched)

\* a Skip over two matched lists whose counts add up to the desired count
C1_Witness ==
    /\ outcome = "skip"
    /\ Len(matched0) = 2
    /\ length(unique_domains) = chunk_size + 1

QuotaExceeded ==
    ceil(length(unique_domains), chunk_size) + (Len(start.lists) - Len(matched0))
        > max_lists

\* C2: whenever ceil(desired / 1000) + (total lists - matched lists) > 300
\* the run ends in the quota abort, before any delete or create call: no
\* list and no policy is deleted or created.
C2_QuotaAbort ==
    (Planned /\ QuotaExceeded)
        => (outcome = "quota" /\ NoMutatingCall /\ RemoteUntouched)

\* a quota abort that keeps a matched list and a policy in place
C2_Witness ==
    /\ outcome = "quota"
    /\ Len(matched0) = 1
    /\ Len(policies0) = 1
    /\ length(unique_domains) = chunk_size + 1

\* C3: in a run, every delete call (old lists, old policy) comes before the
\* first create-list call, and the create / update call of the policy comes
\* after the last create-list call.
C3_ReplaceOrdering ==
    \A i \in 1..Len(calls) : \A j \in 1..Len(calls) :
        i < j =>
            /\ calls[i] = "create_list"
                  => calls[j] \notin {"delete_list", "delete_rule"}
            /\ calls[i] \in {"create_rule", "update_rule"}
                  => calls[j] # "create_list"

\* a completed replace that deleted a policy and a list and created two lists
C3_Witness ==
    /\ outcome = "done"
    /\ {"delete_rule", "delete_list", "create_list", "create_rule"}
           \subseteq Range(calls)
    /\ Len(matched_now) = 2

\* some get of the policies has returned in this run
PoliciesRead ==
    \E k \in 1..Len(calls) :
        /\ calls[k] = "get_rules"
        /\ (k < Len(calls) \/ outcome # "remote_error")

\* C4: if more than one policy matches the rule-group prefix when the run
\* reads the policies, the run aborts with a fatal error and has deleted none
\* of these policies and deleted or created no list.
C4_IntegrityAbort ==
    (Planned /\ PoliciesRead /\ Len(policies0) > 1)
        => /\ RemoteUntouched
           /\ pc = "idle" => outcome \in {"integrity_error", "remote_error"}

\* C5: a run that starts with zero or one policy of the rule-group has zero
\* or one such policy in every state it reaches, aborted runs included.
C5_AtMostOnePolicy == Len(policies0) <= 1 => Len(policies_now) <= 1

\* a completed replace that removed the one old policy and created a new one
C5_Witness ==
    /\ outcome = "done"
    /\ Len(policies0) = 1
    /\ Len(policies_now) = 1
    /\ policies_now[1].id # policies0[1].id

\* C6: when the run before aborted on a remote error after the replace had
\* begun, the next run with the same desired set that returns normally ends
\* with exactly one policy of the rule-group, referencing the matched lists.
C6_NextRunRecovers ==
    ( /\ pc = "idle"
      /\ outcome \in {"skip", "done"}
      /\ retry )
        => /\ Len(policies_now) = 1
           /\ policies_now[1].list_ids = ids_of(matched_now)

Items(ls) == UNION {Domains(ls[k].items) : k \in 1..Len(ls)}

\* C7 as claimed: after any run that returns without error and without the
\* quota abort, Skip included, the items of the matched lists are the
\* desired domains.
C7_SynchronizedAfterRun ==
    (pc = "idle" /\ outcome \in {"skip", "done"})
        => Items(matched_now) = Domains(unique_domains)

\* C7 amended: after a full replace that completes, the items of the matched
\* lists are the desired domains; after a Skip only their number is the
\* number of desired domains.
C7_SynchronizedAfterReplace ==
    /\ (pc = "idle" /\ outcome = "done")
           => Items(matched_now) = Domains(unique_domains)
    /\ (pc = "idle" /\ outcome = "skip")
           => sum_count(matched_now) = length(unique_domains)

\* a completed replace of an old list by two lists with other items
C7_Witness ==
    /\ pc = "idle"
    /\ outcome = "done"
    /\ matched0 # <<>>
    /\ length(unique_domains) = chunk_size + 1
    /\ Items(matched0) # Domains(unique_domains)

\* C8: chunk_list yields ceil(N / C) chunks of 1..C items each whose
\* concatenation is the input, no item in two chunks; none for N = 0.
C8_Chunking ==
    chunk_done =>
        /\ Len(chunk_out) = ceil(length(chunk_in), chunk_n)
        /\ \A k \in 1..Len(chunk_out) :
               length(chunk_out[k]) >= 1 /\ length(chunk_out[k]) <= chunk_n
        /\ Flatten(chunk_out) = Expand(chunk_in)
        /\ \A j \in 1..Len(chunk_out) : \A k \in 1..Len(chunk_out) :
               j # k => Domains(chunk_out[j]) \cap Domains(chunk_out[k]) = {}
        /\ length(chunk_in) = 0 => chunk_out = <<>>

\* seven items in chunks of three: the last chunk is partial
C8_Witness ==
    /\ chunk_done
    /\ length(chunk_in) = 7
    /\ chunk_n = 3
    /\ Len(chunk_out) = 3
    /\ length(chunk_out[3]) = 1

\* C9: a run that starts with at most 300 remote lists never has more than
\* 300 remote lists, matched plus out-of-band, in any state it reaches.
C9_ListQuota == Len(start.lists) <= max_lists => Len(lists) <= max_lists

\* a replace that fills the account up to the quota
C9_Witness ==
    /\ Len(lists) = max_lists
    /\ {"delete_list", "create_list"} \subseteq Range(calls)

\* C10: a failed remote call ends the run at once and changes nothing; after
\* it the run issues no further call and the remote state stays as it is.
C10_FailurePropagates ==
    [][ /\ (outcome # "remote_error" /\ outcome' = "remote_error")
              => (pc' = "idle" /\ lists' = lists /\ policies' = policies)
        /\ (outcome = "remote_error" /\ outcome' = "remote_error")
              => (calls' = calls /\ lists' = lists /\ policies' = policies)
      ]_vars

\* a run that failed at a later call, leaving the replace partly applied
C10_Witness ==
    /\ outcome = "remote_error"
    /\ pc = "idle"
    /\ Len(calls) >= 4
    /\ lists # start.lists

\* C11: when the program stops because the credentials or the configuration
\* file are missing, no create, update or delete call has been issued since
\* the process started, the construction of App included.
C11_ConfigErrorsPrecedeMutation ==
    (pc = "idle" /\ outcome \in {"missing_credentials", "missing_config"})
        => /\ calls = <<>>
           /\ \A k \in 1..Len(ctor_calls) : ctor_calls[k] \notin Mutating

\* ---- claims on the loop over the sources
\* the inputs' only upper-case letter is "A"
lower(s) == [k \in 1..Len(s) |-> IF s[k] = "A" THEN "a" ELSE s[k]]

\* a domain lower-cased and without one trailing dot
normalize(d) ==
    IF d # <<>> /\ d[Len(d)] = "." THEN lower(SubSeq(d, 1, Len(d) - 1))
    ELSE lower(d)

\* what follows the last dot of the normalized domain
final_label(d) ==
    LET n == normalize(d)
        dots == {i \in 1..Len(n) : n[i] = "."}
        last == IF dots = {} THEN 0
                ELSE CHOOSE i \in dots : \A j \in dots : j <= i
    IN  SubSeq(n, last + 1, Len(n))

\* the loop over the sources is over and the unique set is made
Built == file_i > Len(files) + 1

FileLines(f) == Range(splitlines(files[f]))

\* C12: with a non-empty blocked-TLD list, convert_to_domain_list returns no
\* domain whose final label is blocked, and every domain that the other
\* filters let through and whose final label is not blocked is returned.
C12_TldSuppression ==
    \A f \in 1..Len(converted) :
        tldlist # <<>> =>
            /\ \A k \in 1..Len(converted[f]) :
                   final_label(converted[f][k]) \notin Range(tldlist)
            /\ \A d \in Range(convert_to_domain_list(files[f], <<>>, whitelist)) :
                   final_label(d) \notin Range(tldlist)
                       => d \in Range(converted[f])

\* C13: the unique domain set of the run has no two entries that are equal
\* after lower-casing and stripping one trailing dot.
C13_NormalizedDedup ==
    Built => \A x \in unique_set : \A y \in unique_set :
                 normalize(x) = normalize(y) => x = y

\* the block of the claim: the hosts line, then the plain line
MixedBlock == file_of(<<hosts_ads, track_example_org>>)

\* the file holds the loopback marker "127.0.0.1 "
HasLoopbackMarker(data) == contains(data, ip_loopback \o <<" ">>)

\* C14 as claimed: from the block with the lines "127.0.0.1 ads.example.com"
\* and "track.example.org" both domains are extracted, and a one-token
\* domain line of a block with the loopback marker is extracted.
C14_MixedFormats ==
    \A f \in 1..Len(converted) :
        /\ (files[f] = MixedBlock /\ tldlist = <<>> /\ whitelist = <<>>)
               => Range(converted[f]) = {ads_example_com, track_example_org}
        /\ HasLoopbackMarker(files[f])
               => \A line \in FileLines(f) :
                      Len(split(line)) = 1
                          => Range(line_domains(line, FALSE, tldlist, whitelist))
                                 \subseteq Range(converted[f])

\* C14 amended: every domain extracted from a block with the loopback marker
\* is the second token of one of its lines, so one-token lines are skipped;
\* with no TLD list and no allow-list the mixed block gives ads.example.com
\* alone, and the two lines in two blocks of one run give both domains.
C14_HostsBlockSkipsOneToken ==
    /\ \A f \in 1..Len(converted) :
           /\ HasLoopbackMarker(files[f])
                  => \A k \in 1..Len(converted[f]) :
                         \E line \in FileLines(f) :
                             /\ Len(split(line)) > 1
                             /\ split(line)[2] = converted[f][k]
           /\ (files[f] = MixedBlock /\ tldlist = <<>> /\ whitelist = <<>>)
                  => converted[f] = <<ads_example_com>>
    /\ ( /\ Built
         /\ tldlist = <<>>
         /\ whitelist = <<>>
         /\ files = <<file_of(<<hosts_ads>>), file_of(<<track_example_org>>)>> )
           => unique_set = {ads_example_com, track_example_org}

\* the two lines came in two blocks and both domains are in the unique set
C14_Witness ==
    /\ Built
    /\ files = <<file_of(<<hosts_ads>>), file_of(<<track_example_org>>)>>
    /\ HasLoopbackMarker(files[1])
    /\ unique_set = {ads_example_com, track_example_org}

\* C17: no domain of the allow-list is in the list convert_to_domain_list
\* returns, for hosts files and for domain lists.
C17_AllowList ==
    \A f \in 1..Len(converted) : \A k \in 1..Len(converted[f]) :
        converted[f][k] \notin Range(whitelist)

\* an allowed domain came in a hosts file and in a domain list, and another
\* domain was returned
C17_Witness ==
    /\ Len(converted) = 2
    /\ whitelist = <<ads_example_com>>
    /\ tldlist = <<>>
    /\ files[1] = file_of(<<hosts_ads>>)
    /\ files[2] = file_of(<<ads_example_com, track_example_org>>)
    /\ converted = <<(<<>>), <<track_example_org>>>>

\* ---- claims on the traffic expressions
ListBased ==
    /\ traffic_by \in {"create_gateway_policy", "update_gateway_policy",
                       "create_firewall_policy"}
    /\ policy_ids # <<>>

\* the length of one term, the ids being one character long
TermLen == Len(any_in) + 2
TermAt(k) == (k - 1) * (TermLen + 2)

\* the terms 'any(dns.domains[*] in $<id>)', one per id and in the order of
\* the ids, with "or" and nothing else between two terms
TermsJoinedByOr ==
    /\ Len(traffic) = Len(policy_ids) * TermLen + (Len(policy_ids) - 1) * 2
    /\ \A k \in 1..Len(policy_ids) :
           SubSeq(traffic, TermAt(k) + 1, TermAt(k) + TermLen)
               = any_in \o policy_ids[k] \o <<")">>
    /\ \A k \in 1..(Len(policy_ids) - 1) :
           SubSeq(traffic, TermAt(k) + TermLen + 1, TermAt(k) + TermLen + 2)
               = <<"o", "r">>

\* any(dns.domains[*] in $A)or any(dns.domains[*] in $B)
A_or_space_B ==
    <<"a", "n", "y", "(", "d", "n", "s", ".", "d", "o", "m", "a", "i", "n",
      "s", "[", "*", "]", " ", "i", "n", " ", "$", "A", ")", "o", "r", " ",
      "a", "n", "y", "(", "d", "n", "s", ".", "d", "o", "m", "a", "i", "n",
      "s", "[", "*", "]", " ", "i", "n", " ", "$", "B", ")">>

\* any(dns.domains[*] in $A)orany(dns.domains[*] in $B)
A_or_B ==
    <<"a", "n", "y", "(", "d", "n", "s", ".", "d", "o", "m", "a", "i", "n",
      "s", "[", "*", "]", " ", "i", "n", " ", "$", "A", ")", "o", "r", "a",
      "n", "y", "(", "d", "n", "s", ".", "d", "o", "m", "a", "i", "n", "s",
      "[", "*", "]", " ", "i", "n", " ", "$", "B", ")">>

\* C15 as claimed: for a non-empty sequence of list ids the expression of
\* the domain-list policy is the terms joined by "or" with no white space
\* added, and for the ids [A, B] it is the text with a blank after "or".
C15_ListTraffic ==
    ListBased =>
        /\ TermsJoinedByOr
        /\ policy_ids = <<(<<"A">>), <<"B">>>> => traffic = A_or_space_B

\* C15 amended: ... and for the ids [A, B] it is the text with no blank
\* on either side of "or".
C15_ListTrafficNoBlank ==
    ListBased =>
        /\ TermsJoinedByOr
        /\ policy_ids = <<(<<"A">>), <<"B">>>> => traffic = A_or_B

\* the expression for the ids [A, B] has been built by the update
C15_Witness ==
    /\ traffic_by = "update_gateway_policy"
    /\ policy_ids = <<(<<"A">>), <<"B">>>>
    /\ traffic = A_or_B

\* the TLDs without their leading dot, sorted and without repeats
TldSet == {lstrip_char(policy_tlds[k], ".") : k \in 1..Len(policy_tlds)}

\* C16: for a non-empty TLD set the expression of the TLD policy is
\* not(any(dns.domains[*] matches "<regex>")), the regex being "[.](", the
\* TLDs sorted, without repeats and joined by "|", and ")$".
C16_TldTraffic ==
    (traffic_by \in {"create_firewall_policy_tld", "tld_run"}
        /\ policy_tlds # <<>>)
        => traffic = <<"n", "o", "t", "(">> \o any_matches
                        \o <<"[", ".", "]", "(">>
                        \o join(<<"|">>, sorted(TldSet))
                        \o <<")", "$">>
                        \o <<"\"", ")", ")">>

\* ---- claims on the replace, continued
CountOf(call) == Cardinality({k \in 1..Len(calls) : calls[k] = call})

\* C18: when a full replace completes, the matched remote lists are the
\* ceil(N / 1000) lists created in this run, the i-th named "<prefix> <i>",
\* and the rule-group has one policy, over the ids of these lists in the
\* order of their creation; from no list and no policy, 1..1000 domains
\* take one list creation and one policy creation.
C18_ReplacePostState ==
    (pc = "idle" /\ outcome = "done") =>
        /\ matched_now = cf_lists
        /\ Len(matched_now) = ceil(length(unique_domains), chunk_size)
        /\ \A i \in 1..Len(matched_now) :
               matched_now[i].name = list_name(name_prefix, i)
        /\ Len(policies_now) = 1
        /\ policies_now[1].list_ids = ids_of(cf_lists)
        /\ ( /\ matched0 = <<>>
             /\ policies0 = <<>>
             /\ length(unique_domains) \in 1..chunk_size )
               => /\ CountOf("create_list") = 1
                  /\ CountOf("create_rule") = 1
                  /\ CountOf("update_rule") = 0

\* a replace into three lists that ends with the update of the policy left
C18_Witness ==
    /\ pc = "idle"
    /\ outcome = "done"
    /\ Len(matched_now) = 3
    /\ CountOf("update_rule") = 1
    /\ policies_now[1].list_ids = ids_of(matched_now)

\* C19: in every state every policy of the rule-group refers only to lists
\* that exist remotely, and a list is deleted only after the delete of the
\* policy, if the rule-group had one.
C19_NoDanglingReference ==
    /\ \A p \in 1..Len(policies_now) :
           Range(policies_now[p].list_ids) \subseteq Range(ids_of(lists))
    /\ \A j \in 1..Len(calls) :
           (calls[j] = "delete_list" /\ policies0 # <<>>)
               => \E i \in 1..(j - 1) : calls[i] = "delete_rule"

\* the lists that the policy referred to are deleted, after the policy
C19_Witness ==
    /\ pc = "pause"
    /\ CountOf("delete_list") = 1
    /\ Len(policies0) = 1
    /\ policies0[1].list_ids # <<>>
    /\ Range(policies0[1].list_ids) \cap Range(ids_of(lists)) = {}

\* C20: a delay follows each delete-list and each create-list call that
\* returned; the pause of 60 seconds occurs at most once, after the deletes
\* and before the first create-list call, and once in a run that creates.
C20_Pacing ==
    /\ \A i \in 1..Len(calls) :
           ( /\ calls[i] \in {"delete_list", "create_list"}
             /\ ~(i = Len(calls) /\ outcome = "remote_error") )
               => (i < Len(calls) /\ calls[i + 1] = "sleep")
    /\ CountOf("sleep60") <= 1
    /\ \A i \in 1..Len(calls) : \A j \in 1..Len(calls) :
           calls[i] = "sleep60" =>
               /\ j < i => calls[j] # "create_list"
               /\ j > i => calls[j] \notin {"delete_list", "delete_rule"}
    /\ ("create_list" \in Range(calls) \/ outcome = "done")
           => CountOf("sleep60") = 1

\* a completed replace: one list deleted, the pause, two lists created
C20_Witness ==
    /\ outcome = "done"
    /\ CountOf("delete_list") = 1
    /\ CountOf("create_list") = 2
    /\ CountOf("sleep") = 3
    /\ CountOf("sleep60") = 1

\* ---- claims on the resources of others
\* the lists that are not of the rule-group
oob_lists(data) ==
    SelectSeq(data, LAMBDA x : ~startswith(x.name, name_prefix))

\* the policies of the rule-groups that the program does not reconcile
oob_policies(data) ==
    SelectSeq(data, LAMBDA x : /\ ~startswith(x.name, name_prefix)
                               /\ ~startswith(x.name, tld_prefix))

\* C21: at every point of every run, whatever the planner decides, the
\* lists whose name does not start with the prefix and the policies of
\* other rule-groups are those the run found when it started: no delete
\* or update has reached one of them.
C21_OutOfBandUntouched ==
    /\ oob_lists(lists) = oob_lists(start.lists)
    /\ oob_policies(policies) = oob_policies(start.policies)

\* a replace that deleted the policy and a list of the rule-group has
\* completed in an account that holds resources of others
C21_Witness ==
    /\ pc = "idle"
    /\ outcome = "done"
    /\ CountOf("delete_rule") = 1
    /\ CountOf("delete_list") = 1
    /\ Len(oob_lists(lists)) = max_lists - 2
    /\ oob_policies(policies) # <<>>

\* ---- claims on the run after a replace
\* C22: a run that comes right after a run that completed a replace, with
\* the same desired domains, issues no create, update or delete call and
\* leaves the remote store as it found it; it ends on the size comparison
\* (or on the failure of its one call, the read of the lists). This holds
\* also when the number of domains is a multiple of 1000.
C22_Idempotent ==
    rerun = "same_again" =>
        /\ pc \in {"get_lists", "idle"}
        /\ \A k \in 1..Len(calls) : calls[k] \notin Mutating
        /\ RemoteUntouched
        /\ pc = "idle" =>
               \/ outcome = "skip"
               \/ outcome = "remote_error" /\ calls = <<"get_lists">>

\* the run after a replace into two full lists has stopped on the size
\* comparison
C22_Witness ==
    /\ rerun = "same_again"
    /\ pc = "idle"
    /\ outcome = "skip"
    /\ length(unique_domains) = 2 * chunk_size
    /\ Len(matched_now) = 2

\* C23: when a run has created or updated the policy of the rule-group,
\* the list ids the policy is built from are not empty, also when no
\* domain is desired and the matched lists hold items.
C23_NoEmptyPolicy ==
    (pc = "idle" /\ outcome = "done") =>
        /\ ids_of(cf_lists) # <<>>
        /\ \A p \in 1..Len(policies_now) : policies_now[p].list_ids # <<>>

====
